---- MODULE Spec2Model ----
(***************************************************************************)
(* Model of cogs/context_respond.py: the ContextualResponder cog.          *)
(*                                                                         *)
(* State: the trigger map (self.responders), the cooldown map              *)
(* (self._cooldowns), the external settings object (bot.settings), the     *)
(* wall clock read by time.time(), and the on_message coroutines the       *)
(* host's event loop is running.  A coroutine runs without interruption    *)
(* from its start to its first await, and from one await to the next; the  *)
(* awaits are message.delete() and message.channel.send().                 *)
(*                                                                         *)
(* Texts and trigger keys are sequences of one-character strings, so that  *)
(* strip() and the word-boundary search are computed character by          *)
(* character.                                                              *)
(***************************************************************************)
EXTENDS Integers, Sequences, FiniteSets, TLC

(***************************************************************************)
(* Bounds of the model.                                                    *)
(***************************************************************************)
\* Largest value the clock takes.
MaxTime == 24
\* Number of messages the host delivers; each gets its own on_message coroutine.
MaxMessages == 2

(***************************************************************************)
(* Program constants.                                                      *)
(***************************************************************************)
\* self.cooldown_seconds = 8.0
cooldown_seconds == 8

\* time.time() is seconds since the Unix epoch: it is far above the cooldown
\* window on any host, so the default `last` of 0.0 never suppresses a trigger.
MinTime == 2 * cooldown_seconds
\* The clock is read at whole windows: two readings are either equal, inside
\* the window, or at least exactly one window apart, its boundary.
TickStep == cooldown_seconds

(***************************************************************************)
(* Characters.                                                             *)
(***************************************************************************)
UpperCase == <<"A","B","C","D","E","F","G","H","I","J","K","L","M",
               "N","O","P","Q","R","S","T","U","V","W","X","Y","Z">>
LowerCase == <<"a","b","c","d","e","f","g","h","i","j","k","l","m",
               "n","o","p","q","r","s","t","u","v","w","x","y","z">>
Digits == {"0","1","2","3","4","5","6","7","8","9"}
\* \w of the re module
WordChars == {UpperCase[i] : i \in 1..26} \cup {LowerCase[i] : i \in 1..26}
             \cup Digits \cup {"_"}
\* the characters str.strip() removes
Whitespace == {" ", "\t", "\n", "\r"}

\* re.IGNORECASE compares characters by their lower-case form
lower(c) ==
    IF \E i \in 1..26 : UpperCase[i] = c
    THEN LowerCase[CHOOSE i \in 1..26 : UpperCase[i] = c]
    ELSE c

\* str.strip(): drop leading and trailing whitespace
RECURSIVE lstrip(_)
lstrip(s) ==
    IF s # <<>> /\ Head(s) \in Whitespace THEN lstrip(Tail(s)) ELSE s
RECURSIVE rstrip(_)
rstrip(s) ==
    IF s # <<>> /\ s[Len(s)] \in Whitespace
    THEN rstrip(SubSeq(s, 1, Len(s) - 1)) ELSE s
strip(s) == rstrip(lstrip(s))

(***************************************************************************)
(* The trigger keys of DEFAULT_RESPONDERS and the texts of the messages.   *)
(***************************************************************************)
K_SPAMWORD == <<"s","p","a","m","w","o","r","d">>
K_POLITICS == <<"p","o","l","i","t","i","c","s">>
K_HELICOPTER == <<"(","?","i",")","\\","b","h","e","l","i","c","o","p","t","e","r","\\","b">>
K_CLIMATE == <<"(","?","i",")","\\","b","(","c","l","i","m","a","t","e"," ","c","h","a","n","g","e","|",
               "g","l","o","b","a","l"," ","w","a","r","m","i","n","g",")","\\","b">>
K_NHS == <<"(","?","i",")","\\","b","n","h","s"," ","s","u","c","k","s","\\","b">>
\* keys a settings object may add: the empty key and an unbalanced regex
K_EMPTY == <<>>
K_BADREGEX == <<"(">>

L_HELICOPTER == <<"h","e","l","i","c","o","p","t","e","r">>
L_CLIMATE == <<"c","l","i","m","a","t","e"," ","c","h","a","n","g","e">>
L_WARMING == <<"g","l","o","b","a","l"," ","w","a","r","m","i","n","g">>
L_NHS == <<"n","h","s"," ","s","u","c","k","s">>

T_EMPTY == <<>>
T_BLANK == <<" "," ">>
T_SPAM == <<"t","h","i","s"," ","i","s"," ","s","p","a","m","w","o","r","d"," ","t","e","s","t">>
T_BOTH == <<"S","p","a","m","w","o","r","d"," ","p","o","l","i","t","i","c","s">>
T_HELIS == <<"I"," ","l","o","v","e"," ","h","e","l","i","c","o","p","t","e","r","s">>
T_HELI == <<"I"," ","l","o","v","e"," ","h","e","l","i","c","o","p","t","e","r">>
\* texts and plain keys that try the word boundaries and the letter case
T_HELI_UPPER == <<"A"," ","H","E","L","I","C","O","P","T","E","R"," ","f","l","e","w">>
T_HELI_QUOTED == <<"(","H","e","l","i","c","o","p","t","e","r",")">>
T_HELI_JOINED == <<"m","y","_","h","e","l","i","c","o","p","t","e","r">>
T_NHS == <<"t","h","e"," ","N","h","s"," ","S","u","c","k","s">>
T_NO_SPACED == <<"o","h"," ","n","o","!"," ","s","t","o","p">>
T_NO_JOINED == <<"n","o","!","n","o">>
K_HELI_PLAIN == L_HELICOPTER
K_HELI_MIXED == <<"H","e","l","i","C","o","p","t","e","r">>
K_NHS_PLAIN == L_NHS
K_NO == <<"n","o","!">>

(***************************************************************************)
(* _match                                                                  *)
(***************************************************************************)
\* dict.get(k, default)
Get(cfg, k, default) == IF k \in DOMAIN cfg THEN cfg[k] ELSE default

\* \b at the position between text[p] and text[p+1]: exactly one side is \w
IsWordAt(text, i) == i \in 1..Len(text) /\ text[i] \in WordChars
WordBoundary(text, p) == IsWordAt(text, p) # IsWordAt(text, p + 1)

\* re.search(r"\b" + literal + r"\b", text), with or without IGNORECASE
\* a slip: the closing \b is left out
SearchWordOpenEnd(lit, text, icase) ==
    \E s \in 0..(Len(text) - Len(lit)) :
        /\ WordBoundary(text, s)
        /\ \A j \in 1..Len(lit) :
              IF icase THEN lower(text[s + j]) = lower(lit[j])
                       ELSE text[s + j] = lit[j]

SearchWord(lit, text, icase) ==
    \E s \in 0..(Len(text) - Len(lit)) :
        /\ WordBoundary(text, s)
        /\ \A j \in 1..Len(lit) :
              IF icase THEN lower(text[s + j]) = lower(lit[j])
                       ELSE text[s + j] = lit[j]
        /\ WordBoundary(text, s + Len(lit))

\* re.compile(key) for the regex keys that occur: the flags and the
\* alternatives between the two \b, or an re.error
re_compile(key) ==
    CASE key = K_HELICOPTER -> [error |-> FALSE, icase |-> TRUE, alts |-> {L_HELICOPTER}]
      [] key = K_CLIMATE -> [error |-> FALSE, icase |-> TRUE, alts |-> {L_CLIMATE, L_WARMING}]
      [] key = K_NHS -> [error |-> FALSE, icase |-> TRUE, alts |-> {L_NHS}]
      [] key = K_BADREGEX -> [error |-> TRUE, icase |-> FALSE, alts |-> {}]

\* a slip: `except re.error: return True`
MatchErrorIsHit(content, key, cfg) ==
    IF Get(cfg, "regex", FALSE)
    THEN LET re == re_compile(key)
         IN  IF re.error THEN TRUE
             ELSE \E lit \in re.alts : SearchWord(lit, content, re.icase)
    ELSE SearchWord(key, content, TRUE)

\* lines 32-39
_match(content, key, cfg) ==
    IF Get(cfg, "regex", FALSE)
    THEN LET re == re_compile(key)
         IN  IF re.error THEN FALSE
             ELSE \E lit \in re.alts : SearchWord(lit, content, re.icase)
    ELSE SearchWord(key, content, TRUE)

(***************************************************************************)
(* Configuration: DEFAULT_RESPONDERS and what bot.settings may hold.       *)
(* A dict is a sequence of [key, cfg] in insertion order; a cfg is a       *)
(* record whose fields are the entries the dict has.                       *)
(***************************************************************************)
DEFAULT_RESPONDERS == <<
    [key |-> K_SPAMWORD,
     cfg |-> [action |-> "delete", message |-> "Please don't post spam.", regex |-> FALSE]],
    [key |-> K_POLITICS,
     cfg |-> [action |-> "reply", message |-> "Let's keep politics out of this channel.", regex |-> FALSE]],
    [key |-> K_HELICOPTER,
     cfg |-> [action |-> "warn", message |-> "That term isn't allowed here.", regex |-> TRUE]],
    [key |-> K_CLIMATE,
     cfg |-> [action |-> "reply", message |-> "Please discuss policy respectfully.", regex |-> TRUE]],
    [key |-> K_NHS,
     cfg |-> [action |-> "warn", message |-> "Wow wow wow... says who? If you don't like nhs, why are you even here?", regex |-> TRUE]] >>

\* A mapping an operator put on bot.settings: an empty key, a malformed regex,
\* the dm action and an action that does not exist.
SETTINGS_RESPONDERS == <<
    [key |-> K_EMPTY, cfg |-> [action |-> "reply", message |-> "?"]],
    [key |-> K_BADREGEX, cfg |-> [action |-> "warn", regex |-> TRUE]],
    [key |-> K_SPAMWORD, cfg |-> [action |-> "dm", message |-> "No spam, please."]],
    [key |-> K_POLITICS, cfg |-> [action |-> "kick", message |-> "Out."]] >>

\* What bot.settings may be: an object without a responders attribute, or one
\* whose responders is the mapping above.
Settings == { [name |-> "settings"],
              [name |-> "settings", responders |-> SETTINGS_RESPONDERS] }
\* The bot object: without a settings attribute, or with one.
Bots == { [name |-> "bot"] } \cup { [name |-> "bot", settings |-> st] : st \in Settings }

\* The cfgs a trigger may carry: each action, an action that does not exist
\* and no action at all, each with a message, without one and with an empty one.
Cfgs ==
    { [action |-> a, message |-> "Stop."] : a \in {"delete", "reply", "dm", "warn", "kick"} }
    \cup { [action |-> a] : a \in {"delete", "reply", "dm", "warn", "kick"} }
    \cup { [action |-> "delete", message |-> ""], [message |-> "Stop."] }
\* A bot whose settings hold a table of one plain trigger with such a cfg.
OneTriggerBots ==
    { [name |-> "bot",
       settings |-> [name |-> "settings",
                     responders |-> << [key |-> K_SPAMWORD, cfg |-> c] >>]] : c \in Cfgs }

\* a slip: the settings are never read
LoadDefaultsOnly(b) == DEFAULT_RESPONDERS

\* getattr(getattr(bot, "settings", None), "responders", DEFAULT_RESPONDERS)
LoadResponders(b) ==
    IF "settings" \in DOMAIN b
    THEN Get(b.settings, "responders", DEFAULT_RESPONDERS)
    ELSE DEFAULT_RESPONDERS

(***************************************************************************)
(* Inbound messages.                                                       *)
(***************************************************************************)
Human == [id |-> 7, bot |-> FALSE]
Robot == [id |-> 9, bot |-> TRUE]
NoGuild == [none |-> TRUE]
\* where a message arrives: a guild text channel, a thread whose guild is not
\* resolved, a direct-message channel
InGuild == [channel |-> [kind |-> "TextChannel", id |-> 1], guild |-> [id |-> 1]]
InThread == [channel |-> [kind |-> "Thread", id |-> 2], guild |-> NoGuild]
InDM == [channel |-> [kind |-> "DMChannel", id |-> 3], guild |-> NoGuild]
Message(c, a, p) ==
    [content |-> c, author |-> a, channel |-> p.channel, guild |-> p.guild]
NoMessage == Message(T_EMPTY, Robot, InDM)

\* the messages that arrive: one text that matches two triggers, in two
\* scopes, one text that matches no trigger, and one message for each reason
\* to ignore a message
Messages ==
    {Message(T_BOTH, Human, p) : p \in {InGuild, InThread}}
    \cup {Message(T_HELIS, Human, InGuild)}
    \cup {Message(T_BOTH, Robot, InGuild), Message(T_BOTH, Human, InDM),
          Message(T_EMPTY, Human, InGuild), Message(T_BLANK, Human, InGuild)}

\* the outcomes of an outbound call: success, discord.Forbidden, or another
\* discord.HTTPException (transport or server failure)
Outcomes == {"ok", "Forbidden", "HTTPException"}
\* isinstance(exc, cls): Forbidden is a subclass of HTTPException
IsInstance(exc, cls) == exc = cls \/ (exc = "Forbidden" /\ cls = "HTTPException")

(***************************************************************************)
(* State.                                                                  *)
(***************************************************************************)
VARIABLES
    bot,         \* the bot object, holder of the external settings
    responders,  \* self.responders
    cooldowns,   \* self._cooldowns: (guild_id, key) -> last_ts
    clock,       \* time.time()
    ctxOut,      \* what the last admin command sent to its context
    delivered,   \* number of messages delivered so far
    msg,         \* msg[i]: the i-th message delivered
    pc,          \* pc[i]: where the coroutine handling it stands
    idx,         \* idx[i]: position of its for loop in responders.items()
    skipped,     \* skipped[i]: the keys it passed over as on cooldown
    evaluated,   \* evaluated[i]: the keys it passed to _match, in order
    fired,       \* fired[i]: the triggers it dispatched, in order
    calls        \* calls[i]: its outbound calls and their outcomes, in order

vars == <<bot, responders, cooldowns, clock, ctxOut, delivered,
          msg, pc, idx, skipped, evaluated, fired, calls>>

Tasks == 1..MaxMessages

\* No coroutine is inside its synchronous for loop: the event loop can start
\* or resume another callback.
LoopFree == \A i \in Tasks : pc[i] # "loop"

Init ==
    /\ bot \in Bots
    /\ responders = LoadResponders(bot)
    /\ cooldowns = << >>
    /\ clock = MinTime
    /\ ctxOut = [cmd |-> "none"]
    /\ delivered = 0
    /\ msg = [i \in Tasks |-> NoMessage]
    /\ pc = [i \in Tasks |-> "pending"]
    /\ idx = [i \in Tasks |-> 0]
    /\ skipped = [i \in Tasks |-> {}]
    /\ evaluated = [i \in Tasks |-> <<>>]
    /\ fired = [i \in Tasks |-> <<>>]
    /\ calls = [i \in Tasks |-> <<>>]

(***************************************************************************)
(* on_message                                                              *)
(***************************************************************************)
\* a slip: the test of message.author.bot is left out
IgnoredButForBots(m) ==
    \/ m.channel.kind \notin {"TextChannel", "Thread"}
    \/ strip(m.content) = <<>>

\* lines 81-87: the early returns
Ignored(m) ==
    \/ m.author.bot
    \/ m.channel.kind \notin {"TextChannel", "Thread"}
    \/ strip(m.content) = <<>>

\* line 89
guild_id(m) == IF "id" \in DOMAIN m.guild THEN m.guild.id ELSE 0

\* a slip: the guild is left out of the cooldown key
cd_key_without_guild(g, key) == <<0, key>>

\* line 95
cd_key(g, key) == <<g, key>>

\* slips: the window taken for milliseconds, and the boundary taken in
OnCooldownMillis(cd, k, now) ==
    now - (IF k \in DOMAIN cd THEN cd[k] ELSE 0) < cooldown_seconds \div 1000
OnCooldownInclusive(cd, k, now) ==
    now - (IF k \in DOMAIN cd THEN cd[k] ELSE 0) <= cooldown_seconds

\* lines 96-98: last = self._cooldowns.get(cd_key, 0.0); now - last < window
OnCooldown(cd, k, now) ==
    now - (IF k \in DOMAIN cd THEN cd[k] ELSE 0) < cooldown_seconds

\* a slip: self._cooldowns = {cd_key: now}
SetCooldownAlone(cd, k, now) == [p \in {k} |-> now]

\* a slip: the write drops the entries whose window is over
SetCooldownEvicts(cd, k, now) ==
    [p \in {q \in DOMAIN cd : now - cd[q] < cooldown_seconds} \cup {k} |->
        IF p = k THEN now ELSE cd[p]]

\* a slip: line 103 is not there
SetCooldownNever(cd, k, now) == cd

\* line 103: self._cooldowns[cd_key] = now
SetCooldown(cd, k, now) ==
    [p \in (DOMAIN cd) \cup {k} |-> IF p = k THEN now ELSE cd[p]]

\* a slip: the break is missing
NoBreak(j, n) == j + 1

\* line 106: the loop position after a dispatch; break leaves the loop
AfterDispatch(j, n) == n + 1

\* the for loop moves to position j, or is over
Goto(i, j) ==
    /\ idx' = [idx EXCEPT ![i] = j]
    /\ pc' = [pc EXCEPT ![i] = IF j > Len(responders) THEN "returned" ELSE "loop"]

\* _perform_action returned: on_message goes on after line 104
Returned(i) == Goto(i, AfterDispatch(idx[i], Len(responders)))

\* the message arrives: lines 80-89
OnMessage(m) ==
    /\ delivered < MaxMessages
    /\ LoopFree
    /\ LET i == delivered + 1 IN
        /\ delivered' = i
        /\ msg' = [msg EXCEPT ![i] = m]
        /\ IF Ignored(m)
           THEN /\ pc' = [pc EXCEPT ![i] = "returned"]
                /\ idx' = idx
           ELSE Goto(i, 1)
    /\ UNCHANGED <<bot, responders, cooldowns, clock, ctxOut,
                   skipped, evaluated, fired, calls>>

\* a slip: an action that is none of the four is answered like reply
FirstAwaitElseSend(cfg) ==
    IF Get(cfg, "action", "reply") = "delete" THEN "delete" ELSE "send"

\* _perform_action up to its first await (lines 42-45, 57, 64, 71)
FirstAwait(cfg) ==
    LET action == Get(cfg, "action", "reply") IN
    IF action = "delete" THEN "delete"
    ELSE IF action \in {"reply", "dm", "warn"} THEN "send"
    ELSE "none"

\* a slip: the loop remembers the last trigger that matches, not the first
RECURSIVE ScanLast(_, _, _, _, _)
ScanLast(j, r, cd, m, now) ==
    IF j > Len(r)
    THEN [hit |-> FALSE, idx |-> j, skipped |-> {}, evaluated |-> <<>>]
    ELSE LET key == r[j].key
             rest == ScanLast(j + 1, r, cd, m, now)
         IN  IF key = <<>>
             THEN rest
             ELSE IF OnCooldown(cd, cd_key(guild_id(m), key), now)
             THEN [rest EXCEPT !.skipped = {key} \cup @]
             ELSE IF _match(m.content, key, r[j].cfg) /\ ~ rest.hit
             THEN [hit |-> TRUE, idx |-> j, skipped |-> {}, evaluated |-> <<key>>]
             ELSE [rest EXCEPT !.evaluated = <<key>> \o @]

\* a slip: the test of line 92 is left out
RECURSIVE ScanEmptyKeyToo(_, _, _, _, _)
ScanEmptyKeyToo(j, r, cd, m, now) ==
    IF j > Len(r)
    THEN [hit |-> FALSE, idx |-> j, skipped |-> {}, evaluated |-> <<>>]
    ELSE LET key == r[j].key
             rest == ScanEmptyKeyToo(j + 1, r, cd, m, now)
         IN  IF OnCooldown(cd, cd_key(guild_id(m), key), now)
             THEN [rest EXCEPT !.skipped = {key} \cup @]
             ELSE IF _match(m.content, key, r[j].cfg)
             THEN [hit |-> TRUE, idx |-> j, skipped |-> {}, evaluated |-> <<key>>]
             ELSE [rest EXCEPT !.evaluated = <<key>> \o @]

\* a slip: the loop ends at the first trigger that does not match
RECURSIVE ScanStopsAtMiss(_, _, _, _, _)
ScanStopsAtMiss(j, r, cd, m, now) ==
    IF j > Len(r)
    THEN [hit |-> FALSE, idx |-> j, skipped |-> {}, evaluated |-> <<>>]
    ELSE LET key == r[j].key
             rest == ScanStopsAtMiss(j + 1, r, cd, m, now)
         IN  IF key = <<>>
             THEN rest
             ELSE IF OnCooldown(cd, cd_key(guild_id(m), key), now)
             THEN [rest EXCEPT !.skipped = {key} \cup @]
             ELSE IF _match(m.content, key, r[j].cfg)
             THEN [hit |-> TRUE, idx |-> j, skipped |-> {}, evaluated |-> <<key>>]
             ELSE [hit |-> FALSE, idx |-> Len(r) + 1, skipped |-> {}, evaluated |-> <<key>>]

\* The for loop of lines 91-101 from position j on, with the clock at `now`:
\* the triggers it passes over as on cooldown, the keys it hands to _match, and
\* where it stops: at the first trigger that matches (hit) or past the end.
\* Nothing is written before the hit, so the cooldown map is the same all along.
RECURSIVE Scan(_, _, _, _, _)
Scan(j, r, cd, m, now) ==
    IF j > Len(r)
    THEN [hit |-> FALSE, idx |-> j, skipped |-> {}, evaluated |-> <<>>]
    ELSE LET key == r[j].key
             rest == Scan(j + 1, r, cd, m, now)
         IN  IF key = <<>>
             THEN rest
             ELSE IF OnCooldown(cd, cd_key(guild_id(m), key), now)
             THEN [rest EXCEPT !.skipped = {key} \cup @]
             ELSE IF _match(m.content, key, r[j].cfg)
             THEN [hit |-> TRUE, idx |-> j, skipped |-> {}, evaluated |-> <<key>>]
             ELSE [rest EXCEPT !.evaluated = <<key>> \o @]

\* on_message runs its for loop up to the first await: lines 91-104
Loop(i) ==
    /\ pc[i] = "loop"
    /\ LET now == clock
           s == Scan(idx[i], responders, cooldowns, msg[i], now)
           key == responders[s.idx].key
           cfg == responders[s.idx].cfg
       IN
       /\ skipped' = [skipped EXCEPT ![i] = @ \cup s.skipped]
       /\ evaluated' = [evaluated EXCEPT ![i] = @ \o s.evaluated]
       /\ IF s.hit
          THEN /\ cooldowns' = SetCooldown(cooldowns, cd_key(guild_id(msg[i]), key), now)
               /\ fired' = [fired EXCEPT ![i] =
                               Append(@, [key |-> key, cfg |-> cfg,
                                          scope |-> guild_id(msg[i]), at |-> now])]
               /\ IF FirstAwait(cfg) = "none"
                  THEN Goto(i, AfterDispatch(s.idx, Len(responders)))
                  ELSE /\ pc' = [pc EXCEPT ![i] = FirstAwait(cfg)]
                       /\ idx' = [idx EXCEPT ![i] = s.idx]
          ELSE /\ Goto(i, s.idx)
               /\ UNCHANGED <<cooldowns, fired>>
    /\ UNCHANGED <<bot, responders, clock, ctxOut, delivered, msg, calls>>

(***************************************************************************)
(* _perform_action                                                         *)
(***************************************************************************)
\* the cfg the coroutine was dispatched with
Cfg(i) == fired[i][Len(fired[i])].cfg
Action(i) == Get(Cfg(i), "action", "reply")

\* `if reply_text:` : the message is there and not empty
HasReplyText(cfg) == "message" \in DOMAIN cfg /\ cfg.message # ""

\* a slip: the delete is not wrapped in a try
CatchesOnSendOnly(action, op) ==
    IF op = "delete" THEN {}
    ELSE IF action = "dm" THEN {"Forbidden", "HTTPException"} ELSE {"Forbidden"}

\* the exception classes each branch catches (lines 48, 53, 60, 67, 75)
Catches(action, op) ==
    IF action = "dm" THEN {"Forbidden", "HTTPException"} ELSE {"Forbidden"}

\* the call raised and no except clause of the branch takes it
Escapes(action, op, outcome) ==
    /\ outcome # "ok"
    /\ ~ \E cls \in Catches(action, op) : IsInstance(outcome, cls)

\* a slip: the handler of a refused call takes the cooldown entry back
ExceptRollsBack(cd, k) == [p \in (DOMAIN cd) \ {k} |-> cd[p]]

\* `except ...: pass` (lines 48-49, 53-54, 60-61, 67-68, 75-76): the cooldown
\* entry of the dispatched pair k stays as line 103 wrote it
ExceptPass(cd, k) == cd

\* the cooldown map after a call of coroutine i ended with `outcome`
AfterCall(i, op, outcome) ==
    IF outcome # "ok" /\ ~ Escapes(Action(i), op, outcome)
    THEN ExceptPass(cooldowns,
                    cd_key(guild_id(msg[i]), fired[i][Len(fired[i])].key))
    ELSE cooldowns

\* the text of the send (lines 52, 59, 66, 74)
SendText(m, cfg) ==
    LET action == Get(cfg, "action", "reply")
        text == IF "message" \in DOMAIN cfg THEN cfg.message ELSE "None"
    IN  IF action = "warn"
        THEN [mention |-> m.author.id,
              body |-> IF HasReplyText(cfg) THEN cfg.message ELSE "Please follow the rules."]
        ELSE IF m.author.id # 0
        THEN [mention |-> m.author.id, body |-> text]
        ELSE [mention |-> 0, body |-> IF HasReplyText(cfg) THEN cfg.message ELSE ""]

\* a slip: the dm action sends to the author, in private
SendTargetAuthor(m, action) ==
    IF action = "dm" THEN [kind |-> "DMChannel", id |-> m.author.id] ELSE m.channel

\* the receiver of the send: message.channel in every branch (lines 52, 59, 66, 74)
SendTarget(m, action) == m.channel

\* await message.delete() completes: lines 46-50, 55
DeleteDone(i, outcome) ==
    /\ pc[i] = "delete"
    /\ LoopFree
    /\ calls' = [calls EXCEPT ![i] = Append(@, [op |-> "delete", outcome |-> outcome])]
    /\ IF Escapes(Action(i), "delete", outcome)
       THEN /\ pc' = [pc EXCEPT ![i] = "raised"]
            /\ idx' = idx
       ELSE IF HasReplyText(Cfg(i))
       THEN /\ pc' = [pc EXCEPT ![i] = "send"]
            /\ idx' = idx
       ELSE Returned(i)
    /\ cooldowns' = AfterCall(i, "delete", outcome)
    /\ UNCHANGED <<bot, responders, clock, ctxOut, delivered,
                   msg, skipped, evaluated, fired>>

\* await message.channel.send(...) completes: lines 51-55, 58-62, 65-69, 73-77
SendDone(i, outcome) ==
    /\ pc[i] = "send"
    /\ LoopFree
    /\ calls' = [calls EXCEPT ![i] =
                    Append(@, [op |-> "send", to |-> SendTarget(msg[i], Action(i)),
                               text |-> SendText(msg[i], Cfg(i)),
                               outcome |-> outcome])]
    /\ IF Escapes(Action(i), "send", outcome)
       THEN /\ pc' = [pc EXCEPT ![i] = "raised"]
            /\ idx' = idx
       ELSE Returned(i)
    /\ cooldowns' = AfterCall(i, "send", outcome)
    /\ UNCHANGED <<bot, responders, clock, ctxOut, delivered,
                   msg, skipped, evaluated, fired>>

(***************************************************************************)
(* The admin commands, the settings and the clock.                         *)
(***************************************************************************)
\* line 112: one line per trigger
Lines(r) ==
    [j \in 1..Len(r) |->
        [key |-> r[j].key,
         action |-> Get(r[j].cfg, "action", "None"),
         message |-> Get(r[j].cfg, "message", "")]]

\* responders_list: lines 111-113
ResponderList ==
    /\ LoopFree
    /\ ctxOut' = [cmd |-> "list",
                  text |-> IF Lines(responders) # <<>> THEN Lines(responders) ELSE <<"none">>]
    /\ UNCHANGED <<bot, responders, cooldowns, clock, delivered,
                   msg, pc, idx, skipped, evaluated, fired, calls>>

\* responders_reload: lines 117-120
ResponderReload ==
    /\ LoopFree
    /\ responders' = LoadResponders(bot)
    /\ ctxOut' = [cmd |-> "reload", text |-> <<"Responders reloaded.">>]
    /\ UNCHANGED <<bot, cooldowns, clock, delivered,
                   msg, pc, idx, skipped, evaluated, fired, calls>>

\* the operator installs a table of his own on bot.settings
SetSettings ==
    /\ LoopFree
    /\ bot' = [name |-> "bot",
               settings |-> [name |-> "settings", responders |-> SETTINGS_RESPONDERS]]
    /\ bot' # bot
    /\ UNCHANGED <<responders, cooldowns, clock, ctxOut, delivered,
                   msg, pc, idx, skipped, evaluated, fired, calls>>

\* time passes
Tick ==
    /\ clock + TickStep <= MaxTime
    /\ clock' = clock + TickStep
    /\ UNCHANGED <<bot, responders, cooldowns, ctxOut, delivered,
                   msg, pc, idx, skipped, evaluated, fired, calls>>

Next ==
    \/ \E m \in Messages : OnMessage(m)
    \/ \E i \in Tasks : Loop(i)
    \/ \E i \in Tasks, o \in Outcomes : DeleteDone(i, o)
    \/ \E i \in Tasks, o \in Outcomes : SendDone(i, o)
    \/ ResponderList
    \/ ResponderReload
    \/ SetSettings
    \/ Tick

Spec == Init /\ [][Next]_vars

(***************************************************************************)
(* The cog under a table of one trigger, for every cfg the trigger may     *)
(* carry: what _perform_action does with each action and each outcome of   *)
(* its calls.  The messages match the trigger; the clock stands still and  *)
(* no admin command runs.                                                  *)
(***************************************************************************)
Anonymous == [id |-> 0, bot |-> FALSE]
DispatchMessages ==
    {Message(T_SPAM, a, p) : a \in {Human, Anonymous}, p \in {InGuild, InThread}}

InitDispatch ==
    /\ bot \in OneTriggerBots
    /\ responders = LoadResponders(bot)
    /\ cooldowns = << >>
    /\ clock = MinTime
    /\ ctxOut = [cmd |-> "none"]
    /\ delivered = 0
    /\ msg = [i \in Tasks |-> NoMessage]
    /\ pc = [i \in Tasks |-> "pending"]
    /\ idx = [i \in Tasks |-> 0]
    /\ skipped = [i \in Tasks |-> {}]
    /\ evaluated = [i \in Tasks |-> <<>>]
    /\ fired = [i \in Tasks |-> <<>>]
    /\ calls = [i \in Tasks |-> <<>>]

NextDispatch ==
    \/ \E m \in DispatchMessages : OnMessage(m)
    \/ \E i \in Tasks : Loop(i)
    \/ \E i \in Tasks, o \in Outcomes : DeleteDone(i, o)
    \/ \E i \in Tasks, o \in Outcomes : SendDone(i, o)

SpecDispatch == InitDispatch /\ [][NextDispatch]_vars

(***************************************************************************)
(* The cog under a table of one plain trigger, for keys and texts that try *)
(* _match: the key as a whole word, inside a longer word, next to          *)
(* punctuation and to an underscore, in another letter case, a phrase of   *)
(* two words, and a key that ends in a character that is not of a word.    *)
(* Every send succeeds; the clock stands still.                            *)
(***************************************************************************)
MatchKeys == {K_HELI_PLAIN, K_HELI_MIXED, K_NHS_PLAIN, K_NO, K_SPAMWORD}
MatchTexts == {T_HELIS, T_HELI, T_HELI_UPPER, T_HELI_QUOTED, T_HELI_JOINED,
               T_NHS, T_NO_SPACED, T_NO_JOINED, T_SPAM}
MatchMessages == {Message(t, Human, InGuild) : t \in MatchTexts}
\* the cfg of a plain trigger: regex False, or no regex entry
MatchCfgs == { [action |-> "reply", message |-> "Stop.", regex |-> FALSE],
               [action |-> "reply", message |-> "Stop."] }
MatchBots ==
    { [name |-> "bot",
       settings |-> [name |-> "settings",
                     responders |-> << [key |-> k, cfg |-> c] >>]] :
          k \in MatchKeys, c \in MatchCfgs }

InitMatch ==
    /\ bot \in MatchBots
    /\ responders = LoadResponders(bot)
    /\ cooldowns = << >>
    /\ clock = MinTime
    /\ ctxOut = [cmd |-> "none"]
    /\ delivered = 0
    /\ msg = [i \in Tasks |-> NoMessage]
    /\ pc = [i \in Tasks |-> "pending"]
    /\ idx = [i \in Tasks |-> 0]
    /\ skipped = [i \in Tasks |-> {}]
    /\ evaluated = [i \in Tasks |-> <<>>]
    /\ fired = [i \in Tasks |-> <<>>]
    /\ calls = [i \in Tasks |-> <<>>]

NextMatch ==
    \/ \E m \in MatchMessages : OnMessage(m)
    \/ \E i \in Tasks : Loop(i)
    \/ \E i \in Tasks : SendDone(i, "ok")

SpecMatch == InitMatch /\ [][NextMatch]_vars

(***************************************************************************)
(* The cog with messages of one author: one that fires a trigger only the  *)
(* default table has, and one that fires a trigger of both tables, while   *)
(* the operator lists, reloads and changes the settings and time passes.   *)
(***************************************************************************)
ReloadMessages ==
    {Message(T_HELI, Human, InGuild), Message(T_BOTH, Human, InGuild)}

NextReload ==
    \/ \E m \in ReloadMessages : OnMessage(m)
    \/ \E i \in Tasks : Loop(i)
    \/ \E i \in Tasks, o \in Outcomes : DeleteDone(i, o)
    \/ \E i \in Tasks, o \in Outcomes : SendDone(i, o)
    \/ ResponderList
    \/ ResponderReload
    \/ SetSettings
    \/ Tick

SpecReload == Init /\ [][NextReload]_vars

(***************************************************************************)
(* Vocabulary of the properties.  These definitions read the recorded      *)
(* history (fired, skipped, evaluated, calls) and restate the conditions   *)
(* of the specification in their own words; they use none of the           *)
(* operators of on_message.                                                *)
(***************************************************************************)
\* every dispatch so far
FiredOf(i) == {fired[i][n] : n \in 1..Len(fired[i])}
Dispatches == UNION {FiredOf(i) : i \in Tasks}
\* the scope of a message: its guild's id, 0 without a guild
ScopeOf(m) == IF "id" \in DOMAIN m.guild THEN m.guild.id ELSE 0
\* what a step adds to the histories of message i
NewFired(i) == {fired'[i][n] : n \in (Len(fired[i]) + 1)..Len(fired'[i])}
NewEvaluated(i) == {evaluated'[i][n] : n \in (Len(evaluated[i]) + 1)..Len(evaluated'[i])}
NewSkipped(i) == skipped'[i] \ skipped[i]
\* the cooldown entries a step writes
Written == {p \in DOMAIN cooldowns' : p \notin DOMAIN cooldowns \/ cooldowns'[p] # cooldowns[p]}
\* message i runs its for loop in this step
RunsLoop(i) == pc[i] = "loop" /\ pc'[i] # "loop"
\* the position of a key in the trigger map
Pos(key) == CHOOSE j \in 1..Len(responders) : responders[j].key = key
\* the trigger at position j matches the text of message i
Matches(i, j) == _match(msg[i].content, responders[j].key, responders[j].cfg)
\* the pair (g, key) was dispatched less than a window before time t
Within(g, key, t) ==
    \E f \in Dispatches : f.scope = g /\ f.key = key /\ t - f.at < cooldown_seconds
OpsOf(i) == [n \in 1..Len(calls[i]) |-> calls[i][n].op]
OutcomesOf(i) == {calls[i][n].outcome : n \in 1..Len(calls[i])}

(***************************************************************************)
(* C1.  For every message at most one trigger's action is dispatched (at   *)
(* most one delete and one send) and at most one cooldown entry is         *)
(* written: a step writes at most one entry, the writer is a message that  *)
(* had dispatched nothing before, and once a message has dispatched, it    *)
(* looks at no further trigger.                                            *)
(***************************************************************************)
C1_AtMostOneAction ==
    [][ /\ \A i \in Tasks :
              /\ Len(fired'[i]) <= 1
              /\ fired[i] # <<>> =>
                    /\ NewEvaluated(i) = {}
                    /\ NewSkipped(i) = {}
              /\ Len(calls'[i]) <= 2
        /\ Cardinality(Written) <= 1
        /\ Written # {} =>
              \E i \in Tasks : fired[i] = <<>> /\ Len(fired'[i]) = 1
      ]_vars

\* a message matching two triggers was answered by the delete action and is over
C1_Witness ==
    \E i \in Tasks :
        /\ pc[i] = "returned"
        /\ msg[i].content = T_BOTH
        /\ Len(fired[i]) = 1
        /\ fired[i][1].key = K_SPAMWORD
        /\ OpsOf(i) = <<"delete", "send">>

(***************************************************************************)
(* C2.  Once a trigger has fired for (scope, key) at time t, any step      *)
(* taken at a time t' with t' - t < cooldown_seconds leaves the cooldown   *)
(* timestamp at t, and no message of that scope dispatches the trigger or  *)
(* hands its key to _match.                                                *)
(***************************************************************************)
C2_NoRefireWithinWindow ==
    [][ \A f \in Dispatches :
            clock - f.at < cooldown_seconds =>
                /\ <<f.scope, f.key>> \in DOMAIN cooldowns'
                /\ cooldowns'[<<f.scope, f.key>>] = f.at
                /\ \A i \in Tasks :
                      ScopeOf(msg[i]) = f.scope /\ pc[i] # "pending" =>
                          /\ \A g \in NewFired(i) : g.key # f.key
                          /\ f.key \notin NewEvaluated(i)
      ]_vars

\* a second message of the scope passed over the trigger inside the window
C2_Witness ==
    \E i, j \in Tasks :
        /\ i # j
        /\ fired[j] # <<>>
        /\ fired[j][1].key \in skipped[i]
        /\ ScopeOf(msg[i]) = fired[j][1].scope
        /\ _match(msg[i].content, fired[j][1].key, fired[j][1].cfg)
        /\ clock - fired[j][1].at < cooldown_seconds

(***************************************************************************)
(* C3.  When a message runs its loop at a time t' and a trigger that       *)
(* matches it was last dispatched in its scope at t with                   *)
(* t' - t >= cooldown_seconds (equality included), the message dispatches  *)
(* that trigger and the cooldown entry becomes t', unless a trigger        *)
(* before it in the map fires first.                                       *)
(***************************************************************************)
C3_RefireAfterWindow ==
    [][ \A i \in Tasks :
            RunsLoop(i) /\ fired[i] = <<>> =>
                \A j \in 1..Len(responders) :
                    LET key == responders[j].key
                        g == ScopeOf(msg[i])
                    IN  ( /\ \E f \in Dispatches : f.scope = g /\ f.key = key
                          /\ ~ Within(g, key, clock)
                          /\ Matches(i, j) )
                        => /\ Len(fired'[i]) = 1
                           /\ \/ Pos(fired'[i][1].key) < j
                              \/ /\ fired'[i][1].key = key
                                 /\ fired'[i][1].at = clock
                                 /\ cooldowns'[<<g, key>>] = clock
      ]_vars

\* the same trigger fired twice in one scope, exactly one window apart
C3_Witness ==
    \E i, j \in Tasks :
        /\ fired[i] # <<>> /\ fired[j] # <<>>
        /\ fired[i][1].key = fired[j][1].key
        /\ fired[i][1].scope = fired[j][1].scope
        /\ fired[i][1].at - fired[j][1].at = cooldown_seconds
        /\ cooldowns[<<fired[i][1].scope, fired[i][1].key>>] = fired[i][1].at

(***************************************************************************)
(* C4, as claimed.  Whenever two triggers of the map both match a message, *)
(* the message dispatches the first of the two and never hands the key of  *)
(* the second to _match, whatever the cooldown state.  (Stated for a first *)
(* trigger whose key is not empty: line 92 never lets an empty key fire.)  *)
(***************************************************************************)
C4_FirstOfTwoAlways ==
    [][ \A i \in Tasks :
            RunsLoop(i) /\ fired[i] = <<>> =>
                \A a, b \in 1..Len(responders) :
                    ( /\ a < b /\ Matches(i, a) /\ Matches(i, b)
                      /\ responders[a].key # <<>> ) =>
                        /\ Len(fired'[i]) = 1
                        /\ fired'[i][1].key = responders[a].key
                        /\ responders[b].key \notin NewEvaluated(i)
      ]_vars

(***************************************************************************)
(* C4, amended.  Whenever two triggers of the map both match a message,    *)
(* the first of the two has a non-empty key and is not within its cooldown *)
(* window for the message's scope, the message dispatches exactly one      *)
(* trigger, the first of the two or one before it, and never hands the key *)
(* of the second to _match.                                                *)
(***************************************************************************)
C4_FirstOfTwoOffCooldown ==
    [][ \A i \in Tasks :
            RunsLoop(i) /\ fired[i] = <<>> =>
                \A a, b \in 1..Len(responders) :
                    ( /\ a < b /\ Matches(i, a) /\ Matches(i, b)
                      /\ responders[a].key # <<>>
                      /\ ~ Within(ScopeOf(msg[i]), responders[a].key, clock) )
                    => /\ Len(fired'[i]) = 1
                       /\ Pos(fired'[i][1].key) <= a
                       /\ responders[b].key \notin NewEvaluated(i)
                       /\ \A f \in NewFired(i) : f.key # responders[b].key
      ]_vars

\* a message matching spamword and politics fired spamword and looked no further
C4_Witness ==
    \E i \in Tasks :
        /\ msg[i].content = T_BOTH
        /\ _match(T_BOTH, K_SPAMWORD, [regex |-> FALSE])
        /\ _match(T_BOTH, K_POLITICS, [regex |-> FALSE])
        /\ Len(fired[i]) = 1
        /\ fired[i][1].key = K_SPAMWORD
        /\ evaluated[i] = <<K_SPAMWORD>>
        /\ skipped[i] = {}

(***************************************************************************)
(* C5.  A message whose author is a bot, or whose channel is neither a     *)
(* text channel nor a thread, or whose content is empty or all whitespace, *)
(* is a no-op: its arrival changes neither map, and it never evaluates a   *)
(* trigger, dispatches or calls delete or send.                            *)
(***************************************************************************)
C5_NotForTheResponder(m) ==
    \/ m.author.bot = TRUE
    \/ ~ (m.channel.kind = "TextChannel" \/ m.channel.kind = "Thread")
    \/ \A n \in 1..Len(m.content) : m.content[n] \in Whitespace

C5_IgnoredIsNoOp ==
    [][ \A i \in Tasks :
            (pc'[i] # "pending" /\ C5_NotForTheResponder(msg'[i])) =>
                /\ pc'[i] = "returned"
                /\ calls'[i] = <<>> /\ fired'[i] = <<>>
                /\ evaluated'[i] = <<>> /\ skipped'[i] = {}
                /\ pc[i] = "pending" =>
                      /\ cooldowns' = cooldowns
                      /\ responders' = responders
      ]_vars

\* a bot's message and a blank message were both delivered and dropped
C5_Witness ==
    \E i, j \in Tasks :
        /\ pc[i] = "returned" /\ msg[i].author.bot /\ msg[i].content = T_BOTH
        /\ pc[j] = "returned" /\ msg[j].content = T_BLANK

(***************************************************************************)
(* C6.  responders_reload sets the trigger map to settings.responders of   *)
(* the bot, or to the five DEFAULT_RESPONDERS when the bot has none, and   *)
(* leaves the cooldown map as it is; responders_list reports the trigger   *)
(* map, line by line.                                                      *)
(***************************************************************************)
C6_Provided ==
    IF "settings" \in DOMAIN bot /\ "responders" \in DOMAIN bot.settings
    THEN bot.settings.responders
    ELSE DEFAULT_RESPONDERS

C6_Line(t) ==
    [key |-> t.key,
     action |-> IF "action" \in DOMAIN t.cfg THEN t.cfg.action ELSE "None",
     message |-> IF "message" \in DOMAIN t.cfg THEN t.cfg.message ELSE ""]

C6_ReloadKeepsCooldowns ==
    [][ /\ (ctxOut'.cmd = "reload" /\ (ctxOut' # ctxOut \/ responders' # responders)) =>
              /\ responders' = C6_Provided
              /\ cooldowns' = cooldowns
              /\ Len(DEFAULT_RESPONDERS) = 5
        /\ ctxOut'.cmd = "list" =>
              /\ Len(ctxOut'.text) = Len(responders')
              /\ \A n \in 1..Len(responders') : ctxOut'.text[n] = C6_Line(responders'[n])
      ]_vars

\* spamword fired under the default table; after a reload to the settings'
\* table a message of the same scope passed over it, inside the window, and
\* fired the politics trigger of the new table
C6_Witness ==
    \E i, j \in Tasks :
        /\ fired[j] # <<>> /\ fired[i] # <<>>
        /\ fired[j][1].key = K_SPAMWORD
        /\ fired[j][1].cfg = DEFAULT_RESPONDERS[1].cfg
        /\ K_SPAMWORD \in skipped[i]
        /\ fired[i][1].scope = fired[j][1].scope
        /\ fired[i][1].key = K_POLITICS
        /\ fired[i][1].cfg = SETTINGS_RESPONDERS[4].cfg
        /\ fired[i][1].at - fired[j][1].at < cooldown_seconds
        /\ responders = SETTINGS_RESPONDERS
        /\ cooldowns[<<fired[j][1].scope, K_SPAMWORD>>] = fired[j][1].at

(***************************************************************************)
(* C7, as claimed.  A send of the dm action or of the warn action that     *)
(* fails with a transport error does not make on_message raise.            *)
(***************************************************************************)
C7_TransportFailureIgnored ==
    \A i \in Tasks :
        ( /\ fired[i] # <<>>
          /\ "action" \in DOMAIN fired[i][1].cfg
          /\ fired[i][1].cfg.action \in {"dm", "warn"}
          /\ calls[i] # <<>>
          /\ calls[i][Len(calls[i])].op = "send"
          /\ calls[i][Len(calls[i])].outcome = "HTTPException" )
        => pc[i] = "returned"

(***************************************************************************)
(* C8.  Under the delete action, when the delete and the send each either  *)
(* succeed or fail with Forbidden, on_message does not raise: the delete   *)
(* is called first; with a response message configured the send follows    *)
(* whatever the delete's outcome, and then on_message returns; with none,  *)
(* on_message returns after the delete.                                    *)
(***************************************************************************)
C8_DeleteSwallowsForbidden ==
    \A i \in Tasks :
        ( /\ fired[i] # <<>>
          /\ "action" \in DOMAIN fired[i][1].cfg
          /\ fired[i][1].cfg.action = "delete"
          /\ OutcomesOf(i) \subseteq {"ok", "Forbidden"} )
        => LET cfg == fired[i][1].cfg
               configured == "message" \in DOMAIN cfg /\ cfg.message # ""
           IN  /\ pc[i] \in {"delete", "send", "returned"}
               /\ pc[i] = "delete" => OpsOf(i) = <<>>
               /\ pc[i] = "send" => OpsOf(i) = <<"delete">> /\ configured
               /\ pc[i] = "returned" =>
                     OpsOf(i) = IF configured THEN <<"delete", "send">> ELSE <<"delete">>
               /\ \A n \in 1..Len(calls[i]) :
                     calls[i][n].op = "send" => calls[i][n].to = msg[i].channel

\* the delete and the send were both refused, and on_message returned
C8_Witness ==
    \E i \in Tasks :
        /\ pc[i] = "returned"
        /\ Len(calls[i]) = 2
        /\ calls[i][1].op = "delete" /\ calls[i][1].outcome = "Forbidden"
        /\ calls[i][2].op = "send" /\ calls[i][2].outcome = "Forbidden"

(***************************************************************************)
(* C9.  A message passes over a trigger as on cooldown only if that very   *)
(* trigger was dispatched in that very scope less than a window before:    *)
(* a dispatch for (g, k) suppresses neither k in another scope nor another *)
(* key in g.                                                               *)
(***************************************************************************)
C9_CooldownPerScopeAndKey ==
    [][ \A i \in Tasks :
            \A key \in NewSkipped(i) : Within(ScopeOf(msg[i]), key, clock)
      ]_vars

\* one key fired in two scopes inside one window, and in one scope two keys did
C9_Witness ==
    \E i, j \in Tasks :
        /\ fired[i] # <<>> /\ fired[j] # <<>>
        /\ fired[i][1].key = fired[j][1].key
        /\ fired[i][1].scope # fired[j][1].scope
        /\ fired[i][1].at - fired[j][1].at \in 0..(cooldown_seconds - 1)

(***************************************************************************)
(* C10.  The trigger map changes only in a step of responders_reload,      *)
(* which moves no message; the cooldown map changes only in a step in      *)
(* which a message dispatches, and then only at the entry of the pair      *)
(* dispatched; responders_list changes neither map.                        *)
(***************************************************************************)
C10_WhoChangesWhat ==
    [][ /\ responders' # responders =>
              /\ ctxOut'.cmd = "reload"
              /\ <<msg', pc', idx', fired', calls', delivered'>>
                     = <<msg, pc, idx, fired, calls, delivered>>
        /\ cooldowns' # cooldowns =>
              \E i \in Tasks :
                  /\ Len(fired'[i]) = Len(fired[i]) + 1
                  /\ LET f == fired'[i][Len(fired'[i])]
                         p == <<f.scope, f.key>>
                     IN  /\ f.scope = ScopeOf(msg[i])
                         /\ DOMAIN cooldowns' = DOMAIN cooldowns \cup {p}
                         /\ \A q \in DOMAIN cooldowns \ {p} : cooldowns'[q] = cooldowns[q]
        /\ (fired' = fired) => cooldowns' = cooldowns
        /\ (ctxOut'.cmd = "list" /\ ctxOut' # ctxOut) =>
              responders' = responders /\ cooldowns' = cooldowns
      ]_vars

\* a second pair fired while the first pair's entry stayed, then a list
C10_Witness ==
    /\ Cardinality(DOMAIN cooldowns) = 2
    /\ ctxOut.cmd = "list"
    /\ bot # [name |-> "bot"]
    /\ responders = DEFAULT_RESPONDERS

(***************************************************************************)
(* C11, as claimed.  When a message runs its loop, the trigger it          *)
(* dispatches is the first trigger of the map that is not within its       *)
(* cooldown window for the message's scope and matches the text; when the  *)
(* map has no such trigger, the message dispatches nothing.                *)
(***************************************************************************)
C11_First(S) == CHOOSE j \in S : \A k \in S : j <= k

C11_OffCooldownAndMatching(i) ==
    {j \in 1..Len(responders) :
        /\ ~ Within(ScopeOf(msg[i]), responders[j].key, clock)
        /\ Matches(i, j)}

C11_FirstMatchingFires ==
    [][ \A i \in Tasks :
            RunsLoop(i) /\ fired[i] = <<>> =>
                LET S == C11_OffCooldownAndMatching(i) IN
                IF S = {}
                THEN fired'[i] = <<>>
                ELSE /\ Len(fired'[i]) = 1
                     /\ fired'[i][1].key = responders[C11_First(S)].key
      ]_vars

(***************************************************************************)
(* C11, amended.  When a message runs its loop, the trigger it dispatches  *)
(* is the first trigger of the map that has a non-empty key, is not within *)
(* its cooldown window for the message's scope and matches the text: the   *)
(* step writes the cooldown entry of that pair and nothing else, and the   *)
(* keys it passed to _match before are those of the triggers in front that *)
(* are neither empty nor on cooldown, in order.  When the map has no such  *)
(* trigger, the message dispatches nothing, calls nothing, returns, and    *)
(* the step changes neither map.                                           *)
(***************************************************************************)
C11_Eligible(i) ==
    {j \in C11_OffCooldownAndMatching(i) : responders[j].key # <<>>}

C11_Looked(i, n) ==
    {j \in 1..n : /\ responders[j].key # <<>>
                  /\ ~ Within(ScopeOf(msg[i]), responders[j].key, clock)}

C11_FirstEligibleFires ==
    [][ \A i \in Tasks :
            RunsLoop(i) /\ fired[i] = <<>> =>
                LET S == C11_Eligible(i)
                    n == IF S = {} THEN Len(responders) ELSE C11_First(S)
                IN
                /\ responders' = responders
                /\ calls' = calls
                /\ NewEvaluated(i) = {responders[j].key : j \in C11_Looked(i, n)}
                /\ Len(evaluated'[i]) = Cardinality(C11_Looked(i, n))
                /\ \A a, b \in 1..Len(evaluated'[i]) :
                      a < b => Pos(evaluated'[i][a]) < Pos(evaluated'[i][b])
                /\ IF S = {}
                   THEN /\ fired'[i] = <<>>
                        /\ cooldowns' = cooldowns
                        /\ pc'[i] = "returned"
                   ELSE /\ Len(fired'[i]) = 1
                        /\ fired'[i][1].key = responders[n].key
                        /\ fired'[i][1].cfg = responders[n].cfg
                        /\ Written = {<<ScopeOf(msg[i]), responders[n].key>>}
                        /\ cooldowns'[<<ScopeOf(msg[i]), responders[n].key>>] = clock
      ]_vars

\* a message passed over an empty key, a trigger that does not match and one
\* on cooldown, and fired the trigger behind them
C11_Witness ==
    \E i \in Tasks :
        /\ responders = SETTINGS_RESPONDERS
        /\ msg[i].content = T_BOTH
        /\ evaluated[i] = <<K_BADREGEX, K_POLITICS>>
        /\ skipped[i] = {K_SPAMWORD}
        /\ Len(fired[i]) = 1
        /\ fired[i][1].key = K_POLITICS

(***************************************************************************)
(* C12.  A regex trigger whose pattern is malformed never matches: a       *)
(* message that runs its loop over a map holding one does not raise, does  *)
(* not dispatch it and writes no cooldown entry for its key; and when the  *)
(* loop has handed the malformed pattern to _match, it goes on with each   *)
(* trigger behind it, in order, until one of them fires.                   *)
(***************************************************************************)
C12_Malformed(t) ==
    /\ "regex" \in DOMAIN t.cfg
    /\ t.cfg.regex = TRUE
    /\ t.key = <<"(">>

C12_MalformedNeverMatches ==
    [][ \A i \in Tasks :
            RunsLoop(i) =>
                \A j \in 1..Len(responders) :
                    C12_Malformed(responders[j]) =>
                        /\ pc'[i] # "raised"
                        /\ \A f \in NewFired(i) : f.key # responders[j].key
                        /\ \A p \in Written : p[2] # responders[j].key
                        /\ \A p \in DOMAIN cooldowns' : p[2] # responders[j].key
                        /\ responders[j].key \in NewEvaluated(i) =>
                              \A k \in (j + 1)..Len(responders) :
                                  \/ responders[k].key = <<>>
                                  \/ responders[k].key \in NewEvaluated(i) \cup NewSkipped(i)
                                  \/ \E f \in NewFired(i) : Pos(f.key) \in (j + 1)..(k - 1)
      ]_vars

\* a message handed the malformed pattern to _match, went on, fired the
\* trigger behind it and returned
C12_Witness ==
    \E i \in Tasks :
        /\ pc[i] = "returned"
        /\ evaluated[i] = <<K_BADREGEX, K_SPAMWORD>>
        /\ C12_Malformed(SETTINGS_RESPONDERS[2])
        /\ Len(fired[i]) = 1
        /\ fired[i][1].key = K_SPAMWORD
        /\ DOMAIN cooldowns = {<<ScopeOf(msg[i]), K_SPAMWORD>>}

(***************************************************************************)
(* C13.  A trigger whose configured action is none of delete, reply, dm    *)
(* and warn is dispatched without any call: on_message calls neither       *)
(* delete nor send for the message and returns without raising.            *)
(***************************************************************************)
C13_UnknownActionIsNoOp ==
    \A i \in Tasks :
        ( /\ fired[i] # <<>>
          /\ "action" \in DOMAIN fired[i][1].cfg
          /\ fired[i][1].cfg.action \notin {"delete", "reply", "dm", "warn"} )
        => /\ calls[i] = <<>>
           /\ pc[i] = "returned"

\* a message fired a trigger with the action "kick" and returned
C13_Witness ==
    \E i \in Tasks :
        /\ Len(fired[i]) = 1
        /\ fired[i][1].cfg = [action |-> "kick", message |-> "Stop."]
        /\ pc[i] = "returned"
        /\ calls[i] = <<>>

(***************************************************************************)
(* C14.  Under the reply, dm and warn actions on_message calls send        *)
(* exactly once, on the channel the message arrived on, and never calls    *)
(* delete.  A delete call is made under the delete action only, as the     *)
(* first call; under the delete action a send is made only when a response *)
(* message is configured, once, on that channel.                           *)
(***************************************************************************)
C14_Done(i) == pc[i] = "returned" \/ pc[i] = "raised"

C14_SendsAndDeletes ==
    \A i \in Tasks :
        fired[i] # <<>> =>
            LET cfg == fired[i][1].cfg
                action == IF "action" \in DOMAIN cfg THEN cfg.action ELSE "reply"
                configured == "message" \in DOMAIN cfg /\ cfg.message # ""
                sends == {n \in 1..Len(calls[i]) : calls[i][n].op = "send"}
                deletes == {n \in 1..Len(calls[i]) : calls[i][n].op = "delete"}
            IN  /\ \A n \in sends : calls[i][n].to = msg[i].channel
                /\ action \in {"reply", "dm", "warn"} =>
                      /\ deletes = {}
                      /\ Cardinality(sends) = IF C14_Done(i) THEN 1 ELSE 0
                /\ deletes # {} => action = "delete" /\ deletes = {1}
                /\ action = "delete" =>
                      /\ C14_Done(i) => deletes = {1}
                      /\ Cardinality(sends) <= 1
                      /\ sends # {} => configured
                      /\ (C14_Done(i) /\ configured /\ calls[i][1].outcome # "HTTPException")
                            => sends = {2}

\* the dm action answered a message of a guild channel on that channel
C14_Witness ==
    \E i \in Tasks :
        /\ pc[i] = "returned"
        /\ Len(fired[i]) = 1
        /\ fired[i][1].cfg = [action |-> "dm", message |-> "Stop."]
        /\ msg[i].channel = InGuild.channel
        /\ Len(calls[i]) = 1
        /\ calls[i][1].op = "send"
        /\ calls[i][1].to = InGuild.channel
        /\ calls[i][1].to.kind = "TextChannel"

(***************************************************************************)
(* C15.  A plain trigger fires for a message that reaches _match exactly   *)
(* when its key occurs in the text, letter case aside, with a word         *)
(* boundary right before the occurrence and right after it.  The key       *)
(* "helicopter" does not occur so in "I love helicopters"; it does in      *)
(* "I love helicopter", and so in any mix of upper and lower case.         *)
(***************************************************************************)
C15_Upper == << "A", "B", "C", "D", "E", "F", "G", "H", "I", "J", "K", "L", "M", "N", "O", "P", "Q", "R", "S", "T", "U", "V", "W", "X", "Y", "Z" >>
C15_Lower == << "a", "b", "c", "d", "e", "f", "g", "h", "i", "j", "k", "l", "m", "n", "o", "p", "q", "r", "s", "t", "u", "v", "w", "x", "y", "z" >>
\* the two characters are the same letter, or the same character
C15_SameChar(c, d) ==
    \/ c = d
    \/ \E n \in 1..26 : {c, d} = {C15_Upper[n], C15_Lower[n]}
\* the character at position p of the text is a letter, a digit or "_"
C15_InWord(text, p) ==
    /\ p >= 1 /\ p <= Len(text)
    /\ \/ \E n \in 1..26 : text[p] = C15_Upper[n] \/ text[p] = C15_Lower[n]
       \/ text[p] \in {"0","1","2","3","4","5","6","7","8","9","_"}
\* the key occurs at positions a..b of the text, between two word boundaries
C15_OccursAt(key, text, a, b) ==
    /\ b - a + 1 = Len(key)
    /\ \A n \in 1..Len(key) : C15_SameChar(text[a + n - 1], key[n])
    /\ C15_InWord(text, a - 1) # C15_InWord(text, a)
    /\ C15_InWord(text, b) # C15_InWord(text, b + 1)
C15_Occurs(key, text) ==
    \E a \in 1..Len(text) : \E b \in a..Len(text) : C15_OccursAt(key, text, a, b)

C15_WholeWordMatch ==
    /\ ~ C15_Occurs(K_HELI_PLAIN, T_HELIS)
    /\ C15_Occurs(K_HELI_PLAIN, T_HELI)
    /\ C15_Occurs(K_HELI_PLAIN, T_HELI_UPPER)
    /\ C15_Occurs(K_HELI_MIXED, T_HELI)
    /\ \A i \in Tasks :
          ( /\ pc[i] \notin {"pending", "loop"}
            /\ Len(responders) = 1
            /\ ~ ("regex" \in DOMAIN responders[1].cfg /\ responders[1].cfg.regex)
            /\ evaluated[i] = <<responders[1].key>> )
          => (fired[i] # <<>>) = C15_Occurs(responders[1].key, msg[i].content)

\* the key "helicopter" was tried on "I love helicopters" and did not fire, and
\* was tried on "A HELICOPTER flew" and fired
C15_Witness ==
    \E i, j \in Tasks :
        /\ responders[1].key = K_HELI_PLAIN
        /\ msg[i].content = T_HELIS
        /\ evaluated[i] = <<K_HELI_PLAIN>>
        /\ pc[i] = "returned" /\ fired[i] = <<>>
        /\ msg[j].content = T_HELI_UPPER
        /\ evaluated[j] = <<K_HELI_PLAIN>>
        /\ pc[j] = "returned" /\ Len(fired[j]) = 1

(***************************************************************************)
(* C16.  The test of the cooldown and its write are one step of the event  *)
(* loop: every dispatch has its cooldown entry in the map from the state   *)
(* it is made in, at its time or later.  So, however the handlers of       *)
(* several messages interleave at their delete and send calls, no two of   *)
(* them dispatch the same trigger for the same scope at times less than    *)
(* cooldown_seconds apart.                                                 *)
(***************************************************************************)
C16_NoDoubleDispatch ==
    /\ \A f \in Dispatches :
          /\ <<f.scope, f.key>> \in DOMAIN cooldowns
          /\ cooldowns[<<f.scope, f.key>>] >= f.at
    /\ \A i, j \in Tasks :
          i # j =>
              \A f \in FiredOf(i), g \in FiredOf(j) :
                  (f.key = g.key /\ f.scope = g.scope) =>
                      \/ f.at - g.at >= cooldown_seconds
                      \/ g.at - f.at >= cooldown_seconds

\* two handlers of one scope are both suspended at their calls; the second
\* passed over the trigger the first had dispatched and dispatched another
C16_Witness ==
    \E i, j \in Tasks :
        /\ i # j
        /\ pc[i] \in {"delete", "send"} /\ pc[j] \in {"delete", "send"}
        /\ ScopeOf(msg[i]) = ScopeOf(msg[j])
        /\ msg[i].content = msg[j].content
        /\ fired[i][1].key \in skipped[j]
        /\ fired[j][1].key # fired[i][1].key
        /\ fired[j][1].at = fired[i][1].at

(***************************************************************************)
(* C17.  A dispatch whose delete or send was refused (Forbidden), or whose *)
(* action is none of the four so that nothing was called, keeps its        *)
(* cooldown entry: the entry is in the map with the time of the dispatch   *)
(* or a later one, so the pair is on cooldown as long as less than         *)
(* cooldown_seconds have passed; no other message of the scope has         *)
(* dispatched the trigger less than cooldown_seconds later; and the        *)
(* message has dispatched that one trigger, the last it handed to _match.  *)
(***************************************************************************)
C17_Failed(i) ==
    /\ fired[i] # <<>>
    /\ \/ \E n \in 1..Len(calls[i]) : calls[i][n].outcome = "Forbidden"
       \/ /\ "action" \in DOMAIN fired[i][1].cfg
          /\ fired[i][1].cfg.action \notin {"delete", "reply", "dm", "warn"}

C18_Keys(r) == {r[j].key : j \in 1..Len(r)}

C18_CooldownsOnlyGrow ==
    [][ /\ \A p \in DOMAIN cooldowns :
              /\ p \in DOMAIN cooldowns'
              /\ cooldowns'[p] >= cooldowns[p]
        /\ \A p \in DOMAIN cooldowns' : cooldowns'[p] <= clock'
        /\ \A p \in Written :
              /\ p[2] \in C18_Keys(responders)
              /\ responders' = responders
      ]_vars

\* the helicopter trigger of the default table fired; a reload then put the
\* settings' table, which has no such key, in its place; a window later the
\* spamword trigger of that table fired: both entries are in the map
C18_Witness ==
    /\ responders = SETTINGS_RESPONDERS
    /\ K_HELICOPTER \notin C18_Keys(responders)
    /\ DOMAIN cooldowns = {<<1, K_HELICOPTER>>, <<1, K_SPAMWORD>>}
    /\ cooldowns[<<1, K_HELICOPTER>>] = MinTime
    /\ cooldowns[<<1, K_SPAMWORD>>] = MinTime + cooldown_seconds
    /\ clock = MinTime + cooldown_seconds
    /\ \E i \in Tasks : /\ fired[i] # <<>>
                         /\ fired[i][1].cfg = SETTINGS_RESPONDERS[3].cfg

(***************************************************************************)
(* C19.  A trigger whose key is empty is never dispatched, never handed to *)
(* _match or to the cooldown test, and no cooldown entry ever has the      *)
(* empty key; a message that runs its loop over a map holding one goes on  *)
(* with each trigger behind it, in order, until one of them fires.         *)
(***************************************************************************)
C19_EmptyKeyNeverFires ==
    [][ /\ \A p \in DOMAIN cooldowns' : p[2] # <<>>
        /\ \A i \in Tasks :
              /\ \A f \in NewFired(i) : f.key # <<>>
              /\ <<>> \notin NewEvaluated(i)
              /\ <<>> \notin NewSkipped(i)
              /\ RunsLoop(i) =>
                    \A j \in 1..Len(responders) :
                        responders[j].key = <<>> =>
                            \A k \in (j + 1)..Len(responders) :
                                \/ responders[k].key \in NewEvaluated(i) \cup NewSkipped(i)
                                \/ \E f \in NewFired(i) : Pos(f.key) \in (j + 1)..(k - 1)
      ]_vars

\* the first trigger of the map has the empty key, which _match would find in
\* the text; a message passed over it, handed the keys of the three triggers
\* behind it to _match and returned with nothing dispatched
C19_Witness ==
    \E i \in Tasks :
        /\ responders = SETTINGS_RESPONDERS
        /\ responders[1].key = <<>>
        /\ msg[i].content = T_HELIS
        /\ _match(msg[i].content, responders[1].key, responders[1].cfg)
        /\ evaluated[i] = <<K_BADREGEX, K_SPAMWORD, K_POLITICS>>
        /\ pc[i] = "returned"
        /\ fired[i] = <<>>
        /\ cooldowns = << >>

====
